---- MODULE Spec2Model ----
(***************************************************************************)
(* The client side of collaborative editing (src/src/collab/index.js):     *)
(* CollabState, unconfirmedFrom, receiveAction and the plugin made by      *)
(* collab(options) with its state field (init, applyAction) and            *)
(* sendableSteps.                                                          *)
(*                                                                         *)
(* The document, step and transform classes and rebaseSteps live in other  *)
(* modules of the repository (transform, ./rebase).  They are modelled on  *)
(* flat documents: a document is a sequence of tokens, a step replaces the *)
(* range [from, to) by a slice, positions are 0-based gaps as in the       *)
(* editor.                                                                 *)
(***************************************************************************)
EXTENDS Integers, Sequences, FiniteSets, TLC

\* ------------------------------------------------------------------ bounds

\* local steps the session makes in a run of specification Spec, in one
\* transform or several
MaxEdits == 2
\* steps the session receives in a run of specification Spec, in one batch or
\* several; no steps or clientIDs array is longer than what is left of it
MaxRcv == 2
\* local steps the two sessions make in a run of specification SpecSys
MaxSysEdits == 3

\* The sessions of the model, named by the client ID they are configured with.
Clients == {7, 9}

\* The document every session starts from.
InitDoc == <<1>>

\* ---------------------------------------------------------------- helpers

Max(a, b) == IF a >= b THEN a ELSE b

\* Array.prototype.slice(n) / RopeSequence.slice(n): the elements from index n.
Slice(s, n) == SubSeq(s, n + 1, Len(s))

Reverse(s) == [i \in 1..Len(s) |-> s[Len(s) + 1 - i]]

\* ------------------------------------------------- steps and transforms

\* ReplaceStep: replace doc[from, to) by slice.
ReplaceStep(from, to, slice) == [from |-> from, to |-> to, slice |-> slice]

\* Step.apply succeeds only on a range of the document.
StepCanApply(step, doc) ==
    /\ 0 <= step.from
    /\ step.from <= step.to
    /\ step.to <= Len(doc)

StepApply(step, doc) ==
    SubSeq(doc, 1, step.from) \o step.slice \o SubSeq(doc, step.to + 1, Len(doc))

Min(a, b) == IF a <= b THEN a ELSE b

\* doc.slice(from, to): the content between two positions, cut at the end of
\* the document.
DocSlice(doc, from, to) ==
    [i \in 1..(Min(to, Len(doc)) - from) |-> doc[from + i]]

\* Step.invert(doc): doc is the document the step was applied to.
StepInvert(step, doc) ==
    ReplaceStep(step.from, step.from + Len(step.slice),
                DocSlice(doc, step.from, step.to))

\* StepMap.mapResult for the single range a ReplaceStep touches.
MapResult(step, pos, assoc) ==
    LET start   == step.from
        oldSize == step.to - step.from
        newSize == Len(step.slice)
        end     == start + oldSize
        side    == IF oldSize = 0 THEN assoc
                   ELSE IF pos = start THEN -1
                   ELSE IF pos = end THEN 1
                   ELSE assoc
    IN  IF start > pos THEN [pos |-> pos, deleted |-> FALSE]
        ELSE IF pos <= end
             THEN [pos     |-> start + (IF side < 0 THEN 0 ELSE newSize),
                   deleted |-> IF assoc < 0 THEN pos # start ELSE pos # end]
             ELSE [pos |-> pos + newSize - oldSize, deleted |-> FALSE]

\* Mapping.mapResult: a position through the maps of steps[i..], in order.
RECURSIVE MappingMapResult(_, _, _, _, _)
MappingMapResult(steps, i, pos, assoc, deleted) ==
    IF i > Len(steps) THEN [pos |-> pos, deleted |-> deleted]
    ELSE LET r == MapResult(steps[i], pos, assoc)
         IN  MappingMapResult(steps, i + 1, r.pos, assoc, deleted \/ r.deleted)

\* ReplaceStep.map(mapping): <<>> stands for null (the step's range is gone),
\* <<step>> for the mapped step.
StepMap(step, steps, i) ==
    LET from == MappingMapResult(steps, i, step.from, 1, FALSE)
        to   == MappingMapResult(steps, i, step.to, -1, FALSE)
    IN  IF from.deleted /\ to.deleted THEN <<>>
        ELSE <<ReplaceStep(from.pos, Max(from.pos, to.pos), step.slice)>>

\* A Transform: the current document, the steps made and, for each step,
\* the document before it.  failed: a step() call threw (TransformError).
Transform(doc) == [doc |-> doc, steps |-> <<>>, docs |-> <<>>, failed |-> FALSE]

\* Transform.step(step)
TrStep(tr, step) ==
    IF tr.failed \/ ~StepCanApply(step, tr.doc)
    THEN [tr EXCEPT !.failed = TRUE]
    ELSE [doc    |-> StepApply(step, tr.doc),
          steps  |-> Append(tr.steps, step),
          docs   |-> Append(tr.docs, tr.doc),
          failed |-> FALSE]

\* Transform.maybeStep(step): a step that does not apply is left out.
TrMaybeStep(tr, step) ==
    IF StepCanApply(step, tr.doc) THEN TrStep(tr, step) ELSE tr

\* for (let i = 0; i < steps.length; i++) transform.step(steps[i])
RECURSIVE TrSteps(_, _, _)
TrSteps(tr, steps, i) ==
    IF i > Len(steps) THEN tr ELSE TrSteps(TrStep(tr, steps[i]), steps, i + 1)

\* The last loop of rebaseSteps: local step i is mapped through the undo of
\* the local steps before it, the remote steps and the local steps already
\* re-applied, and is re-applied when it survives.
RECURSIVE RebaseReapply(_, _, _, _)
RebaseReapply(tr, steps, n, i) ==
    IF i > Len(steps) THEN tr
    ELSE LET mapped == StepMap(steps[i], tr.steps, n - i + 2)
             next   == IF mapped = <<>> THEN tr ELSE TrMaybeStep(tr, mapped[1])
         IN  RebaseReapply(next, steps, n, i + 1)

\* rebaseSteps(transform, steps, inverted, inside): undo the local steps
\* (last first), apply the remote steps, re-apply the local steps mapped.
rebaseSteps(transform, steps, inverted, inside) ==
    LET undone  == TrSteps(transform, Reverse(inverted), 1)
        applied == TrSteps(undone, inside, 1)
    IN  IF applied.failed THEN applied
        ELSE RebaseReapply(applied, steps, Len(inverted), 1)

\* ------------------------------------------------------------ CollabState

\* class CollabState
CollabState(version, unconfirmed) == [version |-> version, unconfirmed |-> unconfirmed]

\* EditorState: the document and the collab state field.
EditorState(doc, collab) == [doc |-> doc, collab |-> collab]

\* state.tr: a fresh transform on the state's document.
StateTr(state) == Transform(state.doc)

\* Mutant of unconfirmedFrom: every step is inverted against the transform's
\* final document.
unconfirmedFrom_FinalDoc(transform, start) ==
    [k \in 1..Max(0, Len(transform.steps) - start) |->
        [step     |-> transform.steps[start + k],
         inverted |-> StepInvert(transform.steps[start + k], transform.doc)]]

\* for (let i = start; i < transform.steps.length; i++) add.push({step, inverted})
unconfirmedFrom(transform, start) ==
    [k \in 1..Max(0, Len(transform.steps) - start) |->
        [step     |-> transform.steps[start + k],
         inverted |-> StepInvert(transform.steps[start + k], transform.docs[start + k])]]

\* -------------------------------------------------------- receiveAction

\* Mutant of newVersion: the version counts batches, not steps.
newVersion_PerBatch(collab, steps) == collab.version + 1

\* let version = collab.version + steps.length
newVersion(collab, steps) == collab.version + Len(steps)

\* Mutant of countOurs: every entry with the local ID counts, wherever it is.
countOurs_All(clientIDs, ourID, ours) ==
    Cardinality({i \in 1..Len(clientIDs) : clientIDs[i] = ourID})

\* Mutant of countOurs: an if where the while should be.
countOurs_First(clientIDs, ourID, ours) ==
    IF ours < Len(clientIDs) /\ clientIDs[ours + 1] = ourID THEN ours + 1 ELSE ours

\* let ours = 0
\* while (ours < clientIDs.length && clientIDs[ours] == ourID) ++ours
RECURSIVE countOurs(_, _, _)
countOurs(clientIDs, ourID, ours) ==
    IF ours < Len(clientIDs) /\ clientIDs[ours + 1] = ourID
    THEN countOurs(clientIDs, ourID, ours + 1)
    ELSE ours

\* Mutant of trimUnconfirmed: the confirmed prefix is not dropped.
trimUnconfirmed_NoTrim(collab, ours) == collab.unconfirmed

\* let unconfirmed = collab.unconfirmed.slice(ours)
trimUnconfirmed(collab, ours) == Slice(collab.unconfirmed, ours)

\* Mutant of trimSteps: the echoed steps stay in the batch.
trimSteps_Keep(steps, ours) == steps

\* steps = ours ? steps.slice(ours) : steps
trimSteps(steps, ours) == IF ours # 0 THEN Slice(steps, ours) ELSE steps

\* Mutant of confirmAction: a confirmation empties the queue.
confirmAction_Clear(version, unconfirmed) ==
    [type |-> "collabConfirm", collabState |-> CollabState(version, <<>>)]

\* return {type: "collabConfirm", collabState: new CollabState(version, unconfirmed)}
confirmAction(version, unconfirmed) ==
    [type |-> "collabConfirm", collabState |-> CollabState(version, unconfirmed)]

\* Mutant of syncTransform: the remote steps are applied to the document as
\* it is, pending steps or not.
syncTransform_Direct(state, unconfirmed, steps) ==
    TrSteps(StateTr(state), steps, 1)

\* if (nUnconfirmed) rebaseSteps(transform, steps of unconfirmed, their
\*                                inverses, steps)
\* else for (let i = 0; i < steps.length; i++) transform.step(steps[i])
syncTransform(state, unconfirmed, steps) ==
    IF Len(unconfirmed) # 0
    THEN rebaseSteps(StateTr(state),
                     [i \in 1..Len(unconfirmed) |-> unconfirmed[i].step],
                     [i \in 1..Len(unconfirmed) |-> unconfirmed[i].inverted],
                     steps)
    ELSE TrSteps(StateTr(state), steps, 1)

\* Mutant of transformAction: the new queue is taken from the first step after
\* the undone ones, so the remote steps are in it.
transformAction_FromRebased(transform, version, nUnconfirmed, nSteps) ==
    [type           |-> "transform",
     transform      |-> transform,
     rebased        |-> nUnconfirmed,
     addToHistory   |-> FALSE,
     newCollabState |-> <<CollabState(version,
                                      unconfirmedFrom(transform, nUnconfirmed))>>,
     interaction    |-> FALSE]

\* Mutant of transformAction: the addToHistory flag is left at its default.
transformAction_History(transform, version, nUnconfirmed, nSteps) ==
    [type           |-> "transform",
     transform      |-> transform,
     rebased        |-> nUnconfirmed,
     addToHistory   |-> TRUE,
     newCollabState |-> <<CollabState(version,
                                      unconfirmedFrom(transform, nUnconfirmed + nSteps))>>,
     interaction    |-> FALSE]

\* unconfirmed = RopeSequence.from(unconfirmedFrom(transform, nUnconfirmed + steps.length))
\* let newCollabState = new CollabState(version, unconfirmed)
\* return transform.action({rebased: nUnconfirmed, addToHistory: false,
\*                          newCollabState, interaction: false})
transformAction(transform, version, nUnconfirmed, nSteps) ==
    [type           |-> "transform",
     transform      |-> transform,
     rebased        |-> nUnconfirmed,
     addToHistory   |-> FALSE,
     newCollabState |-> <<CollabState(version,
                                      unconfirmedFrom(transform, nUnconfirmed + nSteps))>>,
     interaction    |-> FALSE]

receiveAction(state, steps, clientIDs, ourID) ==
    LET collab      == state.collab
        version     == newVersion(collab, steps)
        ours        == countOurs(clientIDs, ourID, 0)
        unconfirmed == trimUnconfirmed(collab, ours)
        rest        == trimSteps(steps, ours)
    IN  IF Len(rest) = 0
        THEN confirmAction(version, unconfirmed)
        ELSE transformAction(syncTransform(state, unconfirmed, rest), version,
                             Len(unconfirmed), Len(rest))

\* ------------------------------------------------------ collab(options)

\* An optional value is a sequence of length 0 (null / undefined) or 1.
\* options: [version, clientID], each optional.

\* const clientID = options && options.clientID
\* if (clientID == null) clientID = Math.floor(Math.random() * 0xFFFFFFFF)
\* The assignment to the const binding throws a TypeError, so collab()
\* returns a plugin only when a client ID is configured.  <<>>: it threw.
collabClientID(options) == options.clientID

\* Mutant of collabInit: the configured version is ignored.
collabInit_Zero(options) == CollabState(0, <<>>)

\* init: () => new CollabState(options && options.version || 0, RopeSequence.empty)
collabInit(options) ==
    CollabState(IF options.version # <<>> /\ options.version[1] # 0
                THEN options.version[1] ELSE 0,
                <<>>)

\* Mutant of applyAction: newCollabState is ignored, every transform action
\* is taken for a local edit.
applyAction_Append(collab, action) ==
    IF action.type = "transform"
    THEN CollabState(collab.version,
                     collab.unconfirmed \o unconfirmedFrom(action.transform, 0))
    ELSE IF action.type = "collabConfirm"
    THEN action.collabState
    ELSE collab

\* applyAction({collab}, action)
applyAction(collab, action) ==
    IF action.type = "transform"
    THEN IF action.newCollabState # <<>>
         THEN action.newCollabState[1]
         ELSE CollabState(collab.version,
                          collab.unconfirmed \o unconfirmedFrom(action.transform, 0))
    ELSE IF action.type = "collabConfirm"
    THEN action.collabState
    ELSE collab

\* Mutant of sendableSteps: the queue entries are sent as they are, inverses
\* included.
sendableSteps_Entries(state, clientID) ==
    IF Len(state.collab.unconfirmed) = 0 THEN <<>>
    ELSE <<[version  |-> state.collab.version,
            steps    |-> state.collab.unconfirmed,
            clientID |-> clientID]>>

\* sendableSteps(state): <<>> is null.
sendableSteps(state, clientID) ==
    IF Len(state.collab.unconfirmed) = 0 THEN <<>>
    ELSE <<[version  |-> state.collab.version,
            steps    |-> [i \in 1..Len(state.collab.unconfirmed) |->
                             state.collab.unconfirmed[i].step],
            clientID |-> clientID]>>

\* EditorState.applyAction(action): a transform action replaces the document
\* by the transform's, and every state field applies the action.
StateApplyAction(state, action) ==
    EditorState(IF action.type = "transform" THEN action.transform.doc ELSE state.doc,
                applyAction(state.collab, action))

\* ------------------------------------------- OrderedMap (util/orderedmap.js)

\* An OrderedMap is its content array: <<key1, value1, key2, value2, ...>>,
\* keys and values strings.  A method call is modelled by what it leaves in
\* the content array of the map it was called on and the content of the map
\* it returns.
Call(this, result) == [this |-> this, result |-> result]

\* An argument that is an OrderedMap, a plain object or null.  An object is
\* its property names in for-in order (props) and the value of each (vals).
OMap(content) == [kind |-> "map", content |-> content]
Obj(props, vals) == [kind |-> "object", props |-> props, vals |-> vals]
Null == [kind |-> "null"]

\* for (let i = 0; i < this.content.length; i += 2)
\*   if (this.content[i] == key) return i
\* return -1
RECURSIVE findFrom(_, _, _)
findFrom(content, key, i) ==
    IF i >= Len(content) THEN -1
    ELSE IF content[i + 1] = key THEN i
    ELSE findFrom(content, key, i + 2)

find(content, key) == findFrom(content, key, 0)

\* get(key): <<>> is undefined.
get(content, key) ==
    LET found == find(content, key)
    IN  IF found = -1 THEN <<>> ELSE <<content[found + 2]>>

\* get size() { return this.content.length >> 1 }
size(content) == Len(content) \div 2

\* content.splice(found, 2) on an array
Splice2(content, found) ==
    SubSeq(content, 1, found) \o SubSeq(content, found + 3, Len(content))

\* Mutant of remove: the binding is spliced out of this.content itself.
remove_InPlace(this, key) ==
    LET found == find(this, key)
    IN  IF found = -1 THEN Call(this, this)
        ELSE Call(Splice2(this, found), Splice2(this, found))

\* remove(key): this when the key is not there, else a copy of the content
\* without the binding.
remove(this, key) ==
    LET found == find(this, key)
    IN  IF found = -1 THEN Call(this, this)
        ELSE Call(this, Splice2(this, found))

\* A value is truthy unless it is undefined (<<>>) or the empty string.
Truthy(opt) == opt # <<>> /\ opt[1] # ""

\* update(key, value, newKey): newKey is <<>> when not given.
update(this, key, value, newKey) ==
    LET removed == IF Truthy(newKey) /\ newKey[1] # key
                   THEN remove(this, newKey[1]) ELSE Call(this, this)
        self    == removed.result
        found   == find(self, key)
        content == IF found = -1
                   THEN self \o <<IF Truthy(newKey) THEN newKey[1] ELSE key, value>>
                   ELSE [self EXCEPT ![found + 2] = value,
                                     ![found + 1] = IF Truthy(newKey) THEN newKey[1] ELSE @]
    IN  Call(removed.this, content)

\* addToStart(key, value)
addToStart(this, key, value) ==
    LET removed == remove(this, key)
    IN  Call(removed.this, <<key, value>> \o removed.result)

\* Mutant of addToEnd: the binding is pushed without removing the key first.
addToEnd_NoRemove(this, key, value) == Call(this, this \o <<key, value>>)

\* addToEnd(key, value): the push is made on a copy.
addToEnd(this, key, value) ==
    LET removed == remove(this, key)
    IN  Call(removed.this, removed.result \o <<key, value>>)

\* for (let prop in value) content.push(prop, value[prop])
RECURSIVE fromLoop(_, _, _)
fromLoop(value, content, i) ==
    IF i > Len(value.props) THEN content
    ELSE fromLoop(value, content \o <<value.props[i], value.vals[value.props[i]]>>,
                  i + 1)

\* static from(value): the map itself, the empty map for null, a map of an
\* object's properties.
from(value) ==
    IF value.kind = "map" THEN value.content
    ELSE IF value.kind = "null" THEN <<>>
    ELSE fromLoop(value, <<>>, 1)

\* The loop of subtract: result = result.remove(key) for each key of map.
\* result is this itself until a key is found in it.
RECURSIVE subtractLoop(_, _, _)
subtractLoop(call, keys, i) ==
    IF i >= Len(keys) THEN call
    ELSE LET removed == remove(call.result, keys[i + 1])
         IN  subtractLoop(Call(IF call.result = call.this THEN removed.this
                                                         ELSE call.this,
                               removed.result),
                          keys, i + 2)

\* subtract(map)
subtract(this, map) == subtractLoop(Call(this, this), from(map), 0)

\* map.size: the size of an OrderedMap, the property "size" of an object.
\* NoSize is !map.size.
NoSize(map) ==
    IF map.kind = "map" THEN size(map.content) = 0
    ELSE IF "size" \in DOMAIN map.vals THEN map.vals["size"] = ""
    ELSE TRUE

\* prepend(map)
prepend(this, map) ==
    IF NoSize(map) THEN Call(this, this)
    ELSE LET m    == from(map)
             rest == subtract(this, OMap(m))
         IN  Call(rest.this, m \o rest.result)

\* append(map)
append(this, map) ==
    IF NoSize(map) THEN Call(this, this)
    ELSE LET m    == from(map)
             rest == subtract(this, OMap(m))
         IN  Call(rest.this, rest.result \o m)

\* ------------------------------------------------------------------ state

VARIABLES
    opts,       \* opts[c]: the options session c is created with
    sess,       \* sess[c]: "new", "plugin" (collab() returned), "failed"
                \*          (collab() threw), "ready" (the state is initialised)
    clientID,   \* clientID[c]: the plugin's clientID (0 before collab())
    state,      \* state[c]: the editor state, [doc, collab]
    log,        \* the authority's log: <<[step, clientID], ...>>
    inflight,   \* inflight[c]: the submission of session c the authority has
                \*              not handled yet (<<>>: none)
    last,       \* the last call made: its arguments, the state before, the result
    rcvd,       \* rcvd[c]: steps of all batches session c has received
    nEdits,     \* nEdits[c]: local steps session c has made
    rebasedEver, \* some receiveAction rebased unconfirmed steps
    om          \* the last OrderedMap call made: the map it was called on,
                \* its arguments, what it left and returned (util/orderedmap.js)

\* The variables of the collab sessions.
collabVars == <<opts, sess, clientID, state, log, inflight, last, rcvd, nEdits,
                rebasedEver>>

vars == <<collabVars, om>>

\* No OrderedMap call was made.
NoCall == [op |-> "none"]

\* Start versions a session may be configured with.
StartVersions == {3, 5}

\* The options a session may be given: version and clientID, each or both absent.
OptionSets(c) ==
    [version  : {<<>>} \cup {<<v>> : v \in StartVersions},
     clientID : {<<>>, <<c>>}]

\* The token the n-th local step of session c inserts.
Tok(c, n) == c * 10 + n

\* The steps the environment may put in a batch of specification Spec.
BatchSteps == {ReplaceStep(0, 0, <<50>>), ReplaceStep(0, 1, <<>>)}

SeqsUpTo(S, n) == UNION {[1..k -> S] : k \in 0..n}

InitCommon ==
    /\ sess = [c \in Clients |-> "new"]
    /\ clientID = [c \in Clients |-> 0]
    /\ state = [c \in Clients |-> EditorState(InitDoc, CollabState(0, <<>>))]
    /\ log = <<>>
    /\ inflight = [c \in Clients |-> <<>>]
    /\ last = [op |-> "none"]
    /\ rcvd = [c \in Clients |-> 0]
    /\ nEdits = [c \in Clients |-> 0]
    /\ rebasedEver = FALSE

\* One session (client 7) with any options, driven by arbitrary batches.
Init ==
    /\ \E o \in OptionSets(7) :
          opts = [c \in Clients |->
                    IF c = 7 THEN o ELSE [version |-> <<>>, clientID |-> <<c>>]]
    /\ InitCommon
    /\ om = NoCall

\* Two sessions created with their client IDs and no start version, so at
\* version 0, the length of the authority's empty log.
InitSys ==
    /\ opts = [c \in Clients |-> [version |-> <<>>, clientID |-> <<c>>]]
    /\ sess = [c \in Clients |-> "ready"]
    /\ clientID = [c \in Clients |-> collabClientID(opts[c])[1]]
    /\ state = [c \in Clients |-> EditorState(InitDoc, collabInit(opts[c]))]
    /\ log = <<>>
    /\ inflight = [c \in Clients |-> <<>>]
    /\ last = [op |-> "none"]
    /\ rcvd = [c \in Clients |-> 0]
    /\ nEdits = [c \in Clients |-> 0]
    /\ rebasedEver = FALSE
    /\ om = NoCall

\* ---------------------------------------------------------------- actions

\* collab(options): the plugin object, or the TypeError of line 102.
Collab(c) ==
    /\ sess[c] = "new"
    /\ LET id == collabClientID(opts[c])
       IN  IF id = <<>>
           THEN /\ sess' = [sess EXCEPT ![c] = "failed"]
                /\ UNCHANGED clientID
           ELSE /\ sess' = [sess EXCEPT ![c] = "plugin"]
                /\ clientID' = [clientID EXCEPT ![c] = id[1]]
    /\ last' = [op |-> "collab", c |-> c]
    /\ UNCHANGED <<om, opts, state, log, inflight, rcvd, nEdits, rebasedEver>>

\* The editor state is created: stateFields.collab.init()
StateInit(c) ==
    /\ sess[c] = "plugin"
    /\ sess' = [sess EXCEPT ![c] = "ready"]
    /\ state' = [state EXCEPT ![c] = EditorState(InitDoc, collabInit(opts[c]))]
    /\ last' = [op |-> "init", c |-> c]
    /\ UNCHANGED <<om, opts, clientID, log, inflight, rcvd, nEdits, rebasedEver>>

\* The caller holds no result of an earlier call: the next call is its own.
Idle == last.op \in {"none", "init"}

\* The caller has used what the last call returned and lets go of it.
Done ==
    /\ last.op \in {"edit", "receive", "send", "authority"}
    /\ last' = [op |-> "none"]
    /\ UNCHANGED <<om, opts, sess, clientID, state, log, inflight, rcvd, nEdits,
                   rebasedEver>>

\* The step a local edit of the given kind makes on doc.
EditStep(kind, doc, tok) ==
    IF kind = "insFront" THEN ReplaceStep(0, 0, <<tok>>)
    ELSE IF kind = "insEnd" THEN ReplaceStep(Len(doc), Len(doc), <<tok>>)
    ELSE ReplaceStep(0, 1, <<>>)

RECURSIVE EditTransform(_, _, _, _, _)
EditTransform(tr, kinds, i, c, n) ==
    IF i > Len(kinds) THEN tr
    ELSE EditTransform(TrStep(tr, EditStep(kinds[i], tr.doc, Tok(c, n + i))),
                       kinds, i + 1, c, n)

\* A local edit: the user's transform is applied as a transform action that
\* carries no newCollabState.
LocalEdit(c, KindSeqs) ==
    /\ sess[c] = "ready"
    /\ Idle
    /\ \E kinds \in KindSeqs :
          /\ \E tr \in {EditTransform(StateTr(state[c]), kinds, 1, c, nEdits[c])} :
             LET action == [type |-> "transform", transform |-> tr,
                            newCollabState |-> <<>>]
             IN  /\ ~tr.failed
                 /\ state' = [state EXCEPT ![c] = StateApplyAction(state[c], action)]
                 /\ last' = [op |-> "edit", c |-> c, pre |-> state[c],
                             action |-> action]
          /\ nEdits' = [nEdits EXCEPT ![c] = nEdits[c] + Len(kinds)]
    /\ UNCHANGED <<om, opts, sess, clientID, log, inflight, rcvd, rebasedEver>>

\* plugin.receiveAction(state, steps, clientIDs), and the action applied.
\* transform.step throws on a step that does not apply; then no action exists.
ReceiveBatch(c, steps, clientIDs) ==
    \E action \in {receiveAction(state[c], steps, clientIDs, clientID[c])} :
        /\ action.type = "transform" => ~action.transform.failed
        /\ state' = [state EXCEPT ![c] = StateApplyAction(state[c], action)]
        /\ last' = [op |-> "receive", c |-> c, pre |-> state[c], steps |-> steps,
                    clientIDs |-> clientIDs, action |-> action]
        /\ rcvd' = [rcvd EXCEPT ![c] = rcvd[c] + Len(steps)]
        /\ rebasedEver' = (rebasedEver \/ (action.type = "transform" /\ action.rebased > 0))

\* The steps array of a batch: where the batch echoes a pending step of the
\* session (a leading entry of clientIDs is the session's ID) it holds that
\* step, elsewhere the step the environment chose.
EchoSteps(c, chosen, clientIDs) ==
    [i \in 1..Len(chosen) |->
        IF /\ i <= Len(state[c].collab.unconfirmed)
           /\ i <= Len(clientIDs)
           /\ \A j \in 1..i : clientIDs[j] = clientID[c]
        THEN state[c].collab.unconfirmed[i].step
        ELSE chosen[i]]

\* The environment hands the session any batch: the IDs need not be those of
\* the steps' authors, and one array may be longer than the other by one.
Receive(c) ==
    /\ sess[c] = "ready"
    /\ Idle
    /\ \E chosen \in SeqsUpTo(BatchSteps, MaxRcv - rcvd[c]),
          clientIDs \in SeqsUpTo(Clients, MaxRcv - rcvd[c]) :
          /\ Len(chosen) - Len(clientIDs) \in {-1, 0, 1}
          /\ ReceiveBatch(c, EchoSteps(c, chosen, clientIDs), clientIDs)
    /\ UNCHANGED <<om, opts, sess, clientID, log, inflight, nEdits>>

\* plugin.sendableSteps(state)
SendableSteps(c) ==
    /\ sess[c] = "ready"
    /\ Idle \/ last.op = "send"
    /\ last' = [op |-> "send", c |-> c, pre |-> state[c],
                payload |-> sendableSteps(state[c], clientID[c])]
    /\ UNCHANGED <<om, opts, sess, clientID, state, log, inflight, rcvd, nEdits,
                   rebasedEver>>

AllKinds == {"insFront", "insEnd", "delFront"}

Next ==
    \E c \in {7} :
        \/ Collab(c)
        \/ StateInit(c)
        \/ LocalEdit(c, SeqsUpTo(AllKinds, MaxEdits - nEdits[c]))
        \/ Receive(c)
        \/ SendableSteps(c)
        \/ Done

Spec == Init /\ [][Next]_vars

\* ------------------------------------------------- clients and authority

\* The caller sends what sendableSteps returns, when it is not null and the
\* session has no submission outstanding (the one-outstanding-batch
\* discipline the callers of sendableSteps keep).
Submit(c) ==
    /\ sess[c] = "ready"
    /\ Idle
    /\ inflight[c] = <<>>
    /\ \E payload \in {sendableSteps(state[c], clientID[c])} :
          /\ payload # <<>>
          /\ inflight' = [inflight EXCEPT ![c] = payload]
          /\ last' = [op |-> "send", c |-> c, pre |-> state[c], payload |-> payload]
    /\ UNCHANGED <<om, opts, sess, clientID, state, log, rcvd, nEdits, rebasedEver>>

\* The log holds local steps only, so it never outgrows what the sessions make.
MaxLog == MaxSysEdits

\* The authority takes the submission of session c: it appends the steps to
\* its log when the submission's version is the length of the log, and drops
\* it otherwise.
Authority(c) ==
    /\ inflight[c] # <<>>
    /\ Idle
    /\ Len(log) <= MaxLog
    /\ inflight' = [inflight EXCEPT ![c] = <<>>]
    /\ LET msg == inflight[c][1]
       IN  /\ IF msg.version = Len(log)
              THEN log' = log \o [i \in 1..Len(msg.steps) |->
                                     [step |-> msg.steps[i], clientID |-> msg.clientID]]
              ELSE UNCHANGED log
           /\ last' = [op |-> "authority", c |-> msg.clientID,
                       accepted |-> (msg.version = Len(log))]
    /\ UNCHANGED <<om, opts, sess, clientID, state, rcvd, nEdits, rebasedEver>>

\* The authority's batch for a client: the log from the client's version to j.
LogBatch(v, j) == SubSeq(log, v + 1, j)

\* A client receives a contiguous extension of the log from its version.
Deliver(c) ==
    /\ sess[c] = "ready"
    /\ Idle
    /\ \E j \in (state[c].collab.version + 1)..Len(log) :
          LET batch == LogBatch(state[c].collab.version, j)
          IN  ReceiveBatch(c, [i \in 1..Len(batch) |-> batch[i].step],
                              [i \in 1..Len(batch) |-> batch[i].clientID])
    /\ UNCHANGED <<om, opts, sess, clientID, log, inflight, nEdits>>

InsertKinds == {"insFront", "insEnd"}

\* A local edit of specification SpecSys is one insertion.
SysEdits ==
    IF nEdits[7] + nEdits[9] < MaxSysEdits THEN [1..1 -> InsertKinds] ELSE {}

NextSys ==
    \E c \in Clients :
        \/ LocalEdit(c, SysEdits)
        \/ Submit(c)
        \/ Authority(c)
        \/ Deliver(c)
        \/ Done

SpecSys == InitSys /\ [][NextSys]_vars

\* ------------------------------------------------------------- OrderedMap

\* The keys and values of the maps and objects of specification SpecMap; ""
\* is the value that is not truthy.
MapKeys == {"a", "b", "size"}
MapValues == {"", "x"}

\* The sequences of distinct keys.
KeyOrders ==
    {ks \in SeqsUpTo(MapKeys, Cardinality(MapKeys)) :
        \A i, j \in 1..Len(ks) : i # j => ks[i] # ks[j]}

\* The plain objects: any properties in any enumeration order.
Objects ==
    UNION {{Obj(ks, vs) : vs \in [{ks[i] : i \in 1..Len(ks)} -> MapValues]} :
              ks \in KeyOrders}

\* What prepend, append and subtract may be given: an OrderedMap made from an
\* object, or an object.
MapArgs == {OMap(from(o)) : o \in Objects} \cup Objects

\* OrderedMap.from(value) of any object or of null.
InitMap ==
    /\ opts = [c \in Clients |-> [version |-> <<>>, clientID |-> <<c>>]]
    /\ InitCommon
    /\ \E value \in Objects \cup {Null} :
          om = [op |-> "from", map |-> from(value)]

\* A call of a method on the map at hand: om keeps the map as it was before
\* the call (this), the arguments, and what the call left and returned.
MapCall(op, args, call) ==
    /\ om' = [op |-> op, args |-> args, this |-> om.map, call |-> call]
    /\ UNCHANGED collabVars

\* There is a map at hand to call a method on.
AtHand == om.op \in {"from", "keep"}

\* The caller goes on with the map the call returned, or with the map the
\* call was made on, as the call left it.
MapKeep ==
    /\ om.op \notin {"none", "from", "keep"}
    /\ \E map \in {om.call.result, om.call.this} :
          om' = [op |-> "keep", map |-> map]
    /\ UNCHANGED collabVars

MapUpdate ==
    /\ AtHand
    /\ \E key \in MapKeys, value \in MapValues,
          newKey \in {<<>>} \cup {<<k>> : k \in MapKeys} :
          MapCall("update", <<key, value, newKey>>,
                  update(om.map, key, value, newKey))

MapRemove ==
    /\ AtHand
    /\ \E key \in MapKeys : MapCall("remove", <<key>>, remove(om.map, key))

MapAddToStart ==
    /\ AtHand
    /\ \E key \in MapKeys, value \in MapValues :
          MapCall("addToStart", <<key, value>>, addToStart(om.map, key, value))

MapAddToEnd ==
    /\ AtHand
    /\ \E key \in MapKeys, value \in MapValues :
          MapCall("addToEnd", <<key, value>>, addToEnd(om.map, key, value))

MapPrepend ==
    /\ AtHand
    /\ \E map \in MapArgs : MapCall("prepend", <<map>>, prepend(om.map, map))

MapAppend ==
    /\ AtHand
    /\ \E map \in MapArgs : MapCall("append", <<map>>, append(om.map, map))

MapSubtract ==
    /\ AtHand
    /\ \E map \in MapArgs : MapCall("subtract", <<map>>, subtract(om.map, map))

NextMap ==
    \/ MapUpdate
    \/ MapRemove
    \/ MapAddToStart
    \/ MapAddToEnd
    \/ MapPrepend
    \/ MapAppend
    \/ MapSubtract
    \/ MapKeep

SpecMap == InitMap /\ [][NextMap]_vars

\* ----------------------------------------------------------------- claims

\* The length of the longest leading run of id in ids.
LeadingRun(ids, id) ==
    CHOOSE n \in 0..Len(ids) :
        /\ \A i \in 1..n : ids[i] = id
        /\ n < Len(ids) => ids[n + 1] # id

\* ids is k copies of id followed by entries that are not id.
OwnThenForeign(ids, id) ==
    \A i, j \in 1..Len(ids) : (i < j /\ ids[j] = id) => ids[i] = id

CountOf(ids, id) == Cardinality({i \in 1..Len(ids) : ids[i] = id})

\* doc after steps[1..n], each applied to the result of the one before.
RECURSIVE DocAfter(_, _, _)
DocAfter(doc, steps, n) ==
    IF n = 0 THEN doc ELSE StepApply(steps[n], DocAfter(doc, steps, n - 1))

\* The session of the last call, after and before it.
Now == state[last.c].collab
Pre == last.pre.collab

\* C1: for a batch whose clientIDs are k copies of the local ID followed by m
\* foreign IDs, with k + m steps, receiveAction drops exactly the first k
\* entries of the pending queue (the rest is what is confirmed or handed to
\* the rebase: its inverses are undone last first) and the version grows by
\* exactly k + m.
C1_ConfirmPrefix ==
    (/\ last.op = "receive"
     /\ Len(last.steps) = Len(last.clientIDs)
     /\ OwnThenForeign(last.clientIDs, clientID[last.c]))
    => LET k       == CountOf(last.clientIDs, clientID[last.c])
           m       == Len(last.clientIDs) - k
           trimmed == SubSeq(Pre.unconfirmed, k + 1, Len(Pre.unconfirmed))
           a       == last.action
       IN  /\ Now.version = Pre.version + k + m
           /\ a.type = "collabConfirm" =>
                 /\ m = 0
                 /\ a.collabState.unconfirmed = trimmed
                 /\ Now.unconfirmed = trimmed
           /\ a.type = "transform" =>
                 /\ m > 0
                 /\ a.rebased = Len(trimmed)
                 /\ a.newCollabState[1].version = Pre.version + k + m
                 /\ Len(trimmed) > 0 =>
                       \A i \in 1..Len(trimmed) :
                           a.transform.steps[i] =
                               trimmed[Len(trimmed) + 1 - i].inverted

\* C1 witness: one echo and one foreign step arrive while two steps are
\* pending; one pending step is left and rebased.
C1_Witness ==
    /\ last.op = "receive"
    /\ last.clientIDs = <<7, 9>>
    /\ Len(last.steps) = 2
    /\ Len(Pre.unconfirmed) = 2
    /\ last.action.type = "transform"
    /\ last.action.rebased = 1
    /\ Now.version = Pre.version + 2

\* The start version a session is configured with.
StartVersion(c) == IF opts[c].version = <<>> THEN 0 ELSE opts[c].version[1]

\* C4: the version is the start version plus the number of steps of all
\* batches received; a local edit leaves it unchanged; it never decreases.
C4_VersionCountsReceived ==
    /\ \A c \in Clients :
          sess[c] = "ready" => state[c].collab.version = StartVersion(c) + rcvd[c]
    /\ last.op = "edit" => Now.version = Pre.version
    /\ last.op \in {"edit", "receive", "send"} => Now.version >= Pre.version

\* C4 witness: a local edit made after batches were received.
C4_Witness ==
    /\ last.op = "edit"
    /\ Len(last.action.transform.steps) > 0
    /\ rcvd[last.c] >= 2
    /\ Now.version = StartVersion(last.c) + rcvd[last.c]

\* C5: a local edit with steps s1..sn keeps the version and the pending
\* entries and appends (s1, inverse of s1), ..., (sn, inverse of sn) in that
\* order, each inverse taken against the document just before its step.
C5_LocalEditAppends ==
    last.op = "edit"
    => LET q  == Pre.unconfirmed
           tr == last.action.transform
           n  == Len(tr.steps)
       IN  /\ Now.version = Pre.version
           /\ Len(Now.unconfirmed) = Len(q) + n
           /\ SubSeq(Now.unconfirmed, 1, Len(q)) = q
           /\ \A i \in 1..n :
                 /\ Now.unconfirmed[Len(q) + i].step = tr.steps[i]
                 /\ Now.unconfirmed[Len(q) + i].inverted =
                       StepInvert(tr.steps[i], DocAfter(last.pre.doc, tr.steps, i - 1))

\* C5 witness: an edit of two steps whose second deletes what the first
\* inserted, so that its inverse depends on the document it is taken against.
C5_Witness ==
    /\ last.op = "edit"
    /\ Len(last.action.transform.steps) = 2
    /\ last.action.transform.steps[2].to = 1
    /\ Len(Now.unconfirmed) = 2
    /\ Now.unconfirmed[2].inverted.slice = last.action.transform.steps[1].slice
    /\ Now.unconfirmed[2].inverted.slice # <<>>

\* C6: receiveAction returns a collabConfirm action, with the new version and
\* the trimmed queue and no change of the document, exactly when no steps are
\* left after the self-echo prefix; otherwise a transform action.  Scenario A:
\* version 5, one pending step, the batch is that step from the local ID 7:
\* a confirm action with version 6 and an empty queue.
C6_ConfirmWhenNoStepsRemain ==
    last.op = "receive"
    => LET k == LeadingRun(last.clientIDs, clientID[last.c])
           a == last.action
       IN  /\ a.type = "collabConfirm" <=> Len(last.steps) <= k
           /\ a.type \in {"collabConfirm", "transform"}
           /\ a.type = "collabConfirm" =>
                 /\ a.collabState.version = Pre.version + Len(last.steps)
                 /\ a.collabState.unconfirmed = Slice(Pre.unconfirmed, k)
                 /\ DOMAIN a = {"type", "collabState"}
                 /\ state[last.c].doc = last.pre.doc
                 /\ Now = a.collabState
           /\ (/\ Pre.version = 5
               /\ Len(Pre.unconfirmed) = 1
               /\ last.steps = <<Pre.unconfirmed[1].step>>
               /\ last.clientIDs = <<7>>
               /\ clientID[last.c] = 7)
              => /\ a.type = "collabConfirm"
                 /\ Now = CollabState(6, <<>>)

\* C6 witness: Scenario A.
C6_Witness ==
    /\ last.op = "receive"
    /\ clientID[last.c] = 7
    /\ Pre.version = 5
    /\ Len(Pre.unconfirmed) = 1
    /\ last.steps = <<Pre.unconfirmed[1].step>>
    /\ last.clientIDs = <<7>>
    /\ last.action.type = "collabConfirm"
    /\ Now = CollabState(6, <<>>)

\* C7: a transform action of receiveAction carries the new CollabState with
\* version = old version + batch length, rebased = the number of pending
\* entries left after the trimming, interaction = false, addToHistory = false.
\* Scenario C: version 3, one pending step, one foreign step: rebased = 1.
C7_TransformActionFields ==
    (last.op = "receive" /\ last.action.type = "transform")
    => LET k == LeadingRun(last.clientIDs, clientID[last.c])
           a == last.action
       IN  /\ a.newCollabState # <<>>
           /\ a.newCollabState[1].version = Pre.version + Len(last.steps)
           /\ Now = a.newCollabState[1]
           /\ a.rebased = Len(Slice(Pre.unconfirmed, k))
           /\ a.interaction = FALSE
           /\ a.addToHistory = FALSE
           /\ (Pre.version = 3 /\ Len(Pre.unconfirmed) = 1 /\ last.clientIDs = <<9>>
               /\ Len(last.steps) = 1)
              => (a.rebased = 1 /\ Now.version = 4)

\* C7 witness: Scenario C.
C7_Witness ==
    /\ last.op = "receive"
    /\ last.action.type = "transform"
    /\ clientID[last.c] = 7
    /\ Pre.version = 3
    /\ Len(Pre.unconfirmed) = 1
    /\ last.clientIDs = <<9>>
    /\ Len(last.steps) = 1
    /\ last.action.rebased = 1
    /\ Now.version = 4

\* C8: receiveAction with an empty batch returns a confirm action with the
\* version and the pending queue of the input state, and applying it leaves
\* the session state as it was.
C8_EmptyBatchNoOp ==
    (last.op = "receive" /\ last.steps = <<>> /\ last.clientIDs = <<>>)
    => /\ last.action.type = "collabConfirm"
       /\ last.action.collabState.version = Pre.version
       /\ last.action.collabState.unconfirmed = Pre.unconfirmed
       /\ state[last.c] = last.pre

\* C8 witness: an empty batch after two received steps, with steps pending.
C8_Witness ==
    /\ last.op = "receive"
    /\ last.steps = <<>>
    /\ last.clientIDs = <<>>
    /\ rcvd[last.c] = 2
    /\ Len(Pre.unconfirmed) = 2
    /\ state[last.c] = last.pre

\* C9: sendableSteps returns null exactly when the pending queue is empty,
\* and otherwise the state's version, the pending steps without inverses in
\* queue order and the client ID; it changes no state, and a second call
\* right after the first returns the same payload.
C9_SendableStepsContent ==
    last.op = "send"
    => LET q == Now.unconfirmed
           p == last.payload
       IN  /\ p = <<>> <=> Len(q) = 0
           /\ p # <<>> =>
                 /\ p[1].version = Now.version
                 /\ Len(p[1].steps) = Len(q)
                 /\ \A i \in 1..Len(q) : p[1].steps[i] = q[i].step
                 /\ p[1].clientID = clientID[last.c]
                 /\ p[1].clientID = opts[last.c].clientID[1]
           /\ state[last.c] = last.pre

\* C9, as checked: the content and frame above hold in every state, and two
\* sendableSteps calls in a row return equal payloads and leave the state.
C9_SendableStepsReadOnly ==
    /\ []C9_SendableStepsContent
    /\ [][(last.op = "send" /\ last'.op = "send") =>
             (last'.payload = last.payload /\ state' = state)]_vars

\* C9 witness: a payload of two steps at a version above the start version.
C9_Witness ==
    /\ last.op = "send"
    /\ last.payload # <<>>
    /\ Len(last.payload[1].steps) = 2
    /\ last.payload[1].version = 4
    /\ last.payload[1].clientID = 7

\* C10: session init gives a CollabState with the configured start version,
\* 0 when none is configured, and an empty pending queue.
C10_InitState ==
    last.op = "init"
    => /\ opts[last.c].version # <<>> => Now.version = opts[last.c].version[1]
       /\ opts[last.c].version = <<>> => Now.version = 0
       /\ Now.unconfirmed = <<>>

\* C10 witness: a session configured with start version 3.
C10_Witness ==
    /\ last.op = "init"
    /\ opts[last.c].version = <<3>>
    /\ Now = CollabState(3, <<>>)

\* A local step of specification SpecSys inserts one token, which no other
\* step inserts: its slice names it, before and after a rebase.

\* The steps of the log that session c has received.
ReceivedOwn(c) ==
    {log[j].step.slice : j \in {i \in 1..Min(state[c].collab.version, Len(log)) :
                                   log[i].clientID = c}}

\* C2: with an authority that appends a submission only when its version is
\* the length of the log and delivers contiguous extensions of the log: no
\* session's pending queue holds a step that was echoed back to it in a
\* received batch, and each batch shortens the queue from the front by exactly
\* its number of self-echoes, which never exceeds the queue's length.
C2_NoAcknowledgedPending ==
    /\ \A c \in Clients :
          /\ state[c].collab.version <= Len(log)
          /\ \A i \in 1..Len(state[c].collab.unconfirmed) :
                state[c].collab.unconfirmed[i].step.slice \notin ReceivedOwn(c)
    /\ last.op = "receive"
       => LET k == CountOf(last.clientIDs, last.c)
              q == Pre.unconfirmed
          IN  /\ k = LeadingRun(last.clientIDs, last.c)
              /\ k <= Len(q)
              /\ \A i \in 1..k : last.steps[i] = q[i].step
              /\ Len(Now.unconfirmed) = Len(q) - k
              /\ \A i \in 1..(Len(q) - k) :
                    Now.unconfirmed[i].step.slice = q[k + i].step.slice
              /\ last.action.type = "collabConfirm" => Now.unconfirmed = Slice(q, k)
              /\ last.action.type = "transform" => last.action.rebased = Len(q) - k

\* C2 witness: a batch with one self-echo and one foreign step reaches a
\* session with two steps pending; one is confirmed, one rebased and kept.
C2_Witness ==
    /\ last.op = "receive"
    /\ Len(last.clientIDs) = 2
    /\ last.clientIDs[1] = last.c
    /\ last.clientIDs[2] # last.c
    /\ Len(Pre.unconfirmed) = 2
    /\ Len(Now.unconfirmed) = 1
    /\ Now.unconfirmed[1].step # Pre.unconfirmed[2].step

\* A session has received the whole log and has nothing pending.
Settled(c) ==
    /\ state[c].collab.version = Len(log)
    /\ state[c].collab.unconfirmed = <<>>

LogSteps == [i \in 1..Len(log) |-> log[i].step]

Occurrences(seq, x) == Cardinality({i \in 1..Len(seq) : seq[i] = x})

C11_SessionCreated ==
    /\ \A c \in Clients :
          sess[c] # "new"
          => /\ sess[c] \in {"plugin", "ready"}
             /\ clientID[c] \in Nat \ {0}
             /\ opts[c].clientID # <<>> => clientID[c] = opts[c].clientID[1]
    /\ (last.op = "send" /\ last.payload # <<>>)
       => last.payload[1].clientID = clientID[last.c]

\* C12: a receiveAction call whose steps and clientIDs arrays differ in
\* length is signalled as an error and leaves the session state (version
\* and pending queue) as it was.
C12_LengthMismatchIsError ==
    (last.op = "receive" /\ Len(last.steps) # Len(last.clientIDs))
    => /\ last.action.type \notin {"collabConfirm", "transform"}
       /\ Now = Pre

\* The session is Synced when its pending queue is empty, Pending otherwise.
Synced(collab) == collab.unconfirmed = <<>>

\* The pending queue receiveAction computes for the new state: the trimmed
\* queue when no step is left after the self-echo prefix, otherwise the
\* transform's steps after the undone and the remote ones.
ComputedQueueLen ==
    LET k       == LeadingRun(last.clientIDs, clientID[last.c])
        trimmed == Slice(Pre.unconfirmed, k)
        rest    == Slice(last.steps, k)
    IN  IF Len(rest) = 0 THEN Len(trimmed)
        ELSE Len(last.action.transform.steps) - Len(trimmed) - Len(rest)

\* A received batch leads to Synced exactly when the queue computed for the
\* new state is empty.
ReceiveSyncedIffEmpty ==
    last.op = "receive" => (Synced(Now) <=> ComputedQueueLen = 0)

\* C13 as stated: from Synced any local edit leads to Pending, and a received
\* batch leads to Synced exactly when the pending queue computed for the new
\* state is empty.
C13_AnyEditPends ==
    /\ (last.op = "edit" /\ Synced(Pre)) => ~Synced(Now)
    /\ ReceiveSyncedIffEmpty

\* C13, amended: from Synced a local edit of at least one step leads to
\* Pending (an edit whose transform has no steps leaves the queue as it
\* was), from Pending a local edit leads to Pending, and a received batch
\* leads to Synced exactly when the pending queue computed for the new state
\* is empty.
C13_SyncedPending ==
    /\ last.op = "edit"
       => /\ Len(last.action.transform.steps) >= 1 => ~Synced(Now)
          /\ Len(last.action.transform.steps) = 0 => Now = Pre
          /\ ~Synced(Pre) => ~Synced(Now)
    /\ ReceiveSyncedIffEmpty

\* C13 witness: a session that went from Synced to Pending by a local edit
\* is led back to Synced by a batch that echoes its pending step.
C13_Witness ==
    /\ last.op = "receive"
    /\ nEdits[last.c] = 1
    /\ ~Synced(Pre)
    /\ Synced(Now)
    /\ last.clientIDs = <<clientID[last.c]>>
    /\ Len(last.steps) = 1

\* C16: for any clientIDs array, the self-echoes are the longest leading run
\* k of the local ID: the first k pending entries and the first k batch steps
\* are dropped, and every batch step after them, whatever its origin ID, is
\* applied as a remote step, in batch order, after the undo of the pending
\* entries that are left; a confirm action results only when no step is left.
C16_LeadingRunOnly ==
    last.op = "receive"
    => LET k       == LeadingRun(last.clientIDs, clientID[last.c])
           trimmed == Slice(Pre.unconfirmed, k)
           rest    == Slice(last.steps, k)
           n       == Len(trimmed)
           a       == last.action
       IN  /\ a.type = "collabConfirm" => (rest = <<>> /\ Now.unconfirmed = trimmed)
           /\ a.type = "transform" =>
                 /\ rest # <<>>
                 /\ a.rebased = n
                 /\ Len(a.transform.steps) >= n + Len(rest)
                 /\ \A i \in 1..n : a.transform.steps[i] = trimmed[n + 1 - i].inverted
                 /\ \A i \in 1..Len(rest) : a.transform.steps[n + i] = rest[i]

\* C16 witness: a batch from client 9 and then from the local client 7: no
\* pending entry is dropped, and both steps are applied as remote steps.
C16_Witness ==
    /\ last.op = "receive"
    /\ clientID[last.c] = 7
    /\ last.clientIDs = <<9, 7>>
    /\ Len(last.steps) = 2
    /\ Len(Pre.unconfirmed) = 1
    /\ last.action.type = "transform"
    /\ last.action.rebased = 1
    /\ last.action.transform.steps[2] = last.steps[1]
    /\ last.action.transform.steps[3] = last.steps[2]

\* C17: when no pending entry is left after the self-echo prefix and remote
\* steps remain, the transform of the action holds exactly those steps, in
\* batch order, each applied to the document the one before left (no undo
\* or re-applied step: the rebase is not used); the action's rebased count
\* is 0 and the state after the action has an empty pending queue.
\* Scenario B: version 5, nothing pending, one step from client 9: version 6,
\* nothing pending.
C17_DirectApply ==
    (last.op = "receive" /\ last.action.type = "transform")
    => LET k    == LeadingRun(last.clientIDs, clientID[last.c])
           rest == Slice(last.steps, k)
           a    == last.action
       IN  /\ Slice(Pre.unconfirmed, k) = <<>>
              => /\ a.transform.steps = rest
                 /\ \A i \in 1..Len(rest) :
                       a.transform.docs[i] = DocAfter(last.pre.doc, rest, i - 1)
                 /\ state[last.c].doc = DocAfter(last.pre.doc, rest, Len(rest))
                 /\ a.rebased = 0
                 /\ Now = CollabState(Pre.version + Len(last.steps), <<>>)
           /\ (/\ Pre = CollabState(5, <<>>)
               /\ clientID[last.c] = 7
               /\ last.clientIDs = <<9>>
               /\ Len(last.steps) = 1)
              => (a.rebased = 0 /\ Now = CollabState(6, <<>>))

\* C17 witness: Scenario B, with a step that changes the document.
C17_Witness ==
    /\ last.op = "receive"
    /\ last.action.type = "transform"
    /\ clientID[last.c] = 7
    /\ Pre = CollabState(5, <<>>)
    /\ last.clientIDs = <<9>>
    /\ Len(last.steps) = 1
    /\ last.action.rebased = 0
    /\ last.action.transform.steps = last.steps
    /\ state[last.c].doc # last.pre.doc
    /\ Now = CollabState(6, <<>>)

\* The steps and the stored inverses of a pending queue.
QueueSteps(q) == [i \in 1..Len(q) |-> q[i].step]
QueueInverted(q) == [i \in 1..Len(q) |-> q[i].inverted]

\* C18: when n > 0 pending entries and m > 0 remote steps are left after the
\* self-echo prefix, the action's transform is what the rebase makes of the
\* n pending steps, their n stored inverses and the m remote steps, each in
\* order: its first n steps undo the pending steps, the next m are the
\* remote steps; the new pending queue is its steps from index n + m to the
\* end, in order, each with the inverse taken against the document just
\* before it, so it holds re-applied local steps only.
C18_RebaseAndRequeue ==
    (/\ last.op = "receive"
     /\ last.action.type = "transform"
     /\ Len(Pre.unconfirmed) > LeadingRun(last.clientIDs, clientID[last.c]))
    => LET k       == LeadingRun(last.clientIDs, clientID[last.c])
           trimmed == Slice(Pre.unconfirmed, k)
           rest    == Slice(last.steps, k)
           n       == Len(trimmed)
           m       == Len(rest)
           tr      == last.action.transform
           q       == Now.unconfirmed
       IN  /\ m > 0
           /\ tr = rebaseSteps(StateTr(last.pre), QueueSteps(trimmed),
                               QueueInverted(trimmed), rest)
           /\ \A i \in 1..n : tr.steps[i] = trimmed[n + 1 - i].inverted
           /\ \A i \in 1..m : tr.steps[n + i] = rest[i]
           /\ Len(q) = Len(tr.steps) - n - m
           /\ \A j \in 1..Len(q) :
                 /\ q[j].step = tr.steps[n + m + j]
                 /\ q[j].inverted =
                       StepInvert(tr.steps[n + m + j],
                                  DocAfter(last.pre.doc, tr.steps, n + m + j - 1))
                 /\ \E i \in 1..n : q[j].step.slice = trimmed[i].step.slice
           /\ state[last.c].doc = DocAfter(last.pre.doc, tr.steps, Len(tr.steps))

\* C18 witness: two pending steps are rebased over two remote steps; both
\* are re-applied, the first at another position than before.
C18_Witness ==
    /\ last.op = "receive"
    /\ last.action.type = "transform"
    /\ last.clientIDs = <<9, 9>>
    /\ Len(last.steps) = 2
    /\ Len(Pre.unconfirmed) = 2
    /\ last.action.rebased = 2
    /\ Len(last.action.transform.steps) = 6
    /\ Len(Now.unconfirmed) = 2
    /\ Now.unconfirmed[1].step # Pre.unconfirmed[1].step
    /\ Now.unconfirmed[1].step.slice = Pre.unconfirmed[1].step.slice

\* C19: the pending queue of the state a received batch produces is no
\* longer than the input queue without its self-echo prefix; init gives an
\* empty queue and sendableSteps leaves the queue, so only a local edit makes
\* the queue longer.
C19_ReceiveNeverLengthens ==
    /\ last.op = "receive"
       => Len(Now.unconfirmed) <=
             Len(Slice(Pre.unconfirmed, LeadingRun(last.clientIDs, clientID[last.c])))
    /\ last.op = "send" => Now.unconfirmed = Pre.unconfirmed
    /\ last.op = "init" => Now.unconfirmed = <<>>
    /\ \A c \in Clients : Len(state[c].collab.unconfirmed) <= nEdits[c]

\* C19 witness: two pending steps are rebased over a remote step that deletes
\* what the first of them deleted; one pending step is left.
C19_Witness ==
    /\ last.op = "receive"
    /\ last.action.type = "transform"
    /\ last.clientIDs = <<9>>
    /\ Len(last.steps) = 1
    /\ Len(Pre.unconfirmed) = 2
    /\ last.action.rebased = 2
    /\ Len(Now.unconfirmed) = 1
    /\ nEdits[last.c] = 2

\* The keys of a content array, and its bindings <<key, value>> in order.
KeysOf(content) == {content[2 * i - 1] : i \in 1..(Len(content) \div 2)}

\* The content without the bindings of the given keys, in the same order.
RECURSIVE WithoutKeys(_, _)
WithoutKeys(content, keys) ==
    IF Len(content) < 2 THEN <<>>
    ELSE (IF content[1] \in keys THEN <<>> ELSE SubSeq(content, 1, 2))
         \o WithoutKeys(SubSeq(content, 3, Len(content)), keys)

\* om records a call of one of the given methods.
Called(ops) == om.op \in ops

\* C14: for OrderedMaps a and b, a.prepend(b) is the bindings of a whose keys
\* are not in b followed by the bindings of b, and a.append(b) is the
\* bindings of b followed by the bindings of a whose keys are not in b.
C14_PrependAppendOrder ==
    (Called({"prepend", "append"}) /\ om.args[1].kind = "map")
    => LET b    == om.args[1].content
           rest == WithoutKeys(om.this, KeysOf(b))
       IN  /\ om.op = "prepend" => om.call.result = rest \o b
           /\ om.op = "append" => om.call.result = b \o rest

\* C15: prepend, append and subtract give, for a plain object o, the map they
\* give for OrderedMap.from(o).
C15_ObjectAsMap ==
    (Called({"prepend", "append", "subtract"}) /\ om.args[1].kind = "object")
    => LET a == om.this
           m == OMap(from(om.args[1]))
       IN  /\ om.op = "prepend" => om.call.result = prepend(a, m).result
           /\ om.op = "append" => om.call.result = append(a, m).result
           /\ om.op = "subtract" => om.call.result = subtract(a, m).result

\* The values bound to key in a content array.
ValuesOf(content, key) ==
    {content[2 * i] : i \in {j \in 1..(Len(content) \div 2) : content[2 * j - 1] = key}}

\* Each key is in the content array once: get finds its only binding and
\* size counts the keys.
KeysOnce(content) ==
    /\ Len(content) % 2 = 0
    /\ \A i, j \in 1..(Len(content) \div 2) :
          content[2 * i - 1] = content[2 * j - 1] => i = j
    /\ size(content) = Cardinality(KeysOf(content))
    /\ \A key \in MapKeys :
          ValuesOf(content, key) = {get(content, key)[i] : i \in 1..Len(get(content, key))}

MapMethods ==
    {"update", "remove", "addToStart", "addToEnd", "prepend", "append", "subtract"}

\* C20: every map made by OrderedMap.from and by any sequence of update,
\* remove, addToStart, addToEnd, prepend, append and subtract holds each key
\* once, and a call leaves the map it was made on with the content it had.
C20_KeysOnceAndPersistent ==
    /\ Called({"from", "keep"}) => KeysOnce(om.map)
    /\ Called(MapMethods)
       => /\ KeysOnce(om.call.result)
          /\ om.call.this = om.this

\* C20 witness: update with a newKey that is bound already, on a map of three
\* bindings: the old binding of newKey is gone, the binding of key has the
\* new key and value, and the map the call was made on is as it was.
C20_Witness ==
    /\ om.op = "update"
    /\ om.args = <<"a", "x", <<"b">>>>
    /\ om.this = <<"size", "x", "a", "", "b", "">>
    /\ om.call.result = <<"size", "x", "b", "x">>
    /\ om.call.this = om.this

====
